---- MODULE Spec2Model ----
(***************************************************************************)
(* Kingmaker: the hex-map movement core of the App component.              *)
(*                                                                         *)
(* Two variants of App live in the repository:                             *)
(*   "regioned" - the later App (regions, capital rename, everything       *)
(*                pre-discovered), with its INITIAL_TILES;                 *)
(*   "fog"      - the earlier App (fog of war, no region rule, no rename), *)
(*                with its INITIAL_TILES.                                  *)
(* The state is App's useState cells; one action per handler.  A handler   *)
(* runs inside one React event, whose setState calls are applied together  *)
(* before the next render, so each handler is one atomic step.             *)
(***************************************************************************)
EXTENDS Integers, Sequences, FiniteSets, TLC

VARIABLES
    variant,      \* which App is running: "regioned" or "fog"
    tiles,        \* useState<GlobalTile[]>(INITIAL_TILES)
    partyTileId,  \* useState<string>('capital')
    screen,       \* useState<Screen>({ kind: 'global' })
    capitalName,  \* useState<string>(DEFAULT_CAPITAL_NAME)   (regioned only)
    last,         \* history: the last handler call, its arguments, the state it
                  \* was called in and the value it returned
    viaUI,        \* history: every call so far was one the rendered screen offers
    trail,        \* history: the tiles the party stood on, latest last (a window)
    probe,        \* the last direct application of a pure function of the
                  \* code: its arguments and its result
    twin          \* the earlier App run beside the later one on the same
                  \* roster and calls: its partyTileId and screen

vars == <<variant, tiles, partyTileId, screen, capitalName, last, viaUI, trail,
          probe, twin>>

----------------------------------------------------------------------------
(* Bounds of the model *)

\* Axial coordinates handed to the hex functions run over -MaxCoord..MaxCoord.
MaxCoord == 3

\* Longest run of blanks put before and after a name typed into the rename box.
MaxPad == 1

\* How many of the party's latest positions the history keeps.
TrailLen == 3

----------------------------------------------------------------------------
(* Strings.  A string is a sequence of one-character strings, so that trim  *)
(* and length are computed, not assumed.                                    *)

Undefined == [undefined |-> TRUE]

IsWhitespace(c) == c \in {" ", "\t"}

RECURSIVE TrimStart(_)
TrimStart(s) ==
    IF s = <<>> THEN <<>>
    ELSE IF IsWhitespace(Head(s)) THEN TrimStart(Tail(s))
    ELSE s

RECURSIVE TrimEnd(_)
TrimEnd(s) ==
    IF s = <<>> THEN <<>>
    ELSE IF IsWhitespace(s[Len(s)]) THEN TrimEnd(SubSeq(s, 1, Len(s) - 1))
    ELSE s

\* String.prototype.trim
Trim(s) == TrimEnd(TrimStart(s))

----------------------------------------------------------------------------
(* Axial geometry (game/logic/hex) *)

\* Mutant: the fifth direction has a sign wrong.
NEIGHBOR_DIRS_Typo ==
    << [q |-> 1, r |-> 0],
       [q |-> 1, r |-> -1],
       [q |-> 0, r |-> -1],
       [q |-> -1, r |-> 0],
       [q |-> -1, r |-> -1],
       [q |-> 0, r |-> 1] >>

\* Mutant: the same six directions with the first two exchanged.
NEIGHBOR_DIRS_Swapped ==
    << [q |-> 1, r |-> -1],
       [q |-> 1, r |-> 0],
       [q |-> 0, r |-> -1],
       [q |-> -1, r |-> 0],
       [q |-> -1, r |-> 1],
       [q |-> 0, r |-> 1] >>

NEIGHBOR_DIRS ==
    << [q |-> 1, r |-> 0],
       [q |-> 1, r |-> -1],
       [q |-> 0, r |-> -1],
       [q |-> -1, r |-> 0],
       [q |-> -1, r |-> 1],
       [q |-> 0, r |-> 1] >>

axialAdd(a, b) == [q |-> a.q + b.q, r |-> a.r + b.r]

axialNeighbors(a) == [i \in 1..Len(NEIGHBOR_DIRS) |-> axialAdd(a, NEIGHBOR_DIRS[i])]

axialEquals(a, b) == a.q = b.q /\ a.r = b.r

----------------------------------------------------------------------------
(* Tile data (game/data/tiles), both variants *)

DEFAULT_CAPITAL_NAME == <<"C", "A", "L", "M", "A", "F", "A", "R">>

INITIAL_TILES ==
    << [id |-> "capital", name |-> DEFAULT_CAPITAL_NAME, region |-> "Capital",
        position |-> "center", axial |-> [q |-> 0, r |-> 0],
        kind |-> "capital", discovered |-> TRUE],
       [id |-> "greenbelt-nw",
        name |-> <<"G","r","e","e","n","b","e","l","t"," ","N","W">>,
        region |-> "Greenbelt",
        position |-> "north-west", axial |-> [q |-> 0, r |-> -1],
        kind |-> "wild", discovered |-> TRUE],
       [id |-> "greenbelt-ne",
        name |-> <<"G","r","e","e","n","b","e","l","t"," ","N","E">>,
        region |-> "Greenbelt",
        position |-> "north-east", axial |-> [q |-> 1, r |-> -1],
        kind |-> "wild", discovered |-> TRUE],
       [id |-> "pitax", name |-> <<"P","i","t","a","x">>, region |-> "Pitax",
        position |-> "west", axial |-> [q |-> -1, r |-> 0],
        kind |-> "wild", discovered |-> TRUE],
       [id |-> "brevoy", name |-> <<"B","r","e","v","o","y">>, region |-> "Brevoy",
        position |-> "east", axial |-> [q |-> 1, r |-> 0],
        kind |-> "wild", discovered |-> TRUE],
       [id |-> "tuskwater-sw",
        name |-> <<"T","u","s","k","w","a","t","e","r"," ","B","a","y"," ","S","W">>,
        region |-> "Tuskwater Bay",
        position |-> "south-west", axial |-> [q |-> -1, r |-> 1],
        kind |-> "wild", discovered |-> TRUE],
       [id |-> "tuskwater-se",
        name |-> <<"T","u","s","k","w","a","t","e","r"," ","B","a","y"," ","S","E">>,
        region |-> "Tuskwater Bay",
        position |-> "south-east", axial |-> [q |-> 0, r |-> 1],
        kind |-> "wild", discovered |-> TRUE] >>

\* Mutant: a copied roster entry kept the coordinates of the entry above it.
FOG_INITIAL_TILES_SharedAxial ==
    [i \in 1..Len(INITIAL_TILES) |->
        [id |-> INITIAL_TILES[i].id, name |-> INITIAL_TILES[i].name,
         axial |-> IF i = 3 THEN INITIAL_TILES[2].axial ELSE INITIAL_TILES[i].axial,
         kind |-> INITIAL_TILES[i].kind,
         discovered |-> (INITIAL_TILES[i].kind = "capital")]]

\* The earlier roster: no region or position field, wild tiles undiscovered.
FOG_INITIAL_TILES ==
    << [id |-> "capital",
        name |-> <<"T","h","e"," ","C","a","p","i","t","a","l">>,
        axial |-> [q |-> 0, r |-> 0], kind |-> "capital", discovered |-> TRUE],
       [id |-> "eastern-mountains",
        name |-> <<"E","a","s","t","e","r","n"," ","M","o","u","n","t","a","i","n","s">>,
        axial |-> [q |-> 1, r |-> 0], kind |-> "wild", discovered |-> FALSE],
       [id |-> "northeastern-hills",
        name |-> <<"N","o","r","t","h","e","a","s","t","e","r","n"," ","H","i","l","l","s">>,
        axial |-> [q |-> 1, r |-> -1], kind |-> "wild", discovered |-> FALSE],
       [id |-> "northern-forest",
        name |-> <<"N","o","r","t","h","e","r","n"," ","F","o","r","e","s","t">>,
        axial |-> [q |-> 0, r |-> -1], kind |-> "wild", discovered |-> FALSE],
       [id |-> "western-plains",
        name |-> <<"W","e","s","t","e","r","n"," ","P","l","a","i","n","s">>,
        axial |-> [q |-> -1, r |-> 0], kind |-> "wild", discovered |-> FALSE],
       [id |-> "southern-marsh",
        name |-> <<"S","o","u","t","h","e","r","n"," ","M","a","r","s","h">>,
        axial |-> [q |-> -1, r |-> 1], kind |-> "wild", discovered |-> FALSE],
       [id |-> "southeastern-river",
        name |-> <<"S","o","u","t","h","e","a","s","t","e","r","n"," ","R","i","v","e","r">>,
        axial |-> [q |-> 0, r |-> 1], kind |-> "wild", discovered |-> FALSE] >>

\* A property read: a field the object does not have reads as undefined.
Region(tile) == IF "region" \in DOMAIN tile THEN tile.region ELSE "undefined"

\* tiles.find(tile => tile.kind === 'capital'), or the Error thrown.
getCapitalTile(ts) ==
    IF \E i \in 1..Len(ts) : ts[i].kind = "capital"
    THEN ts[CHOOSE i \in 1..Len(ts) :
                /\ ts[i].kind = "capital"
                /\ \A j \in 1..Len(ts) : ts[j].kind = "capital" => i <= j]
    ELSE [throws |-> "No capital tile found! This should never happen."]

getTilesByRegion(ts, region) == SelectSeq(ts, LAMBDA tile : Region(tile) = region)

----------------------------------------------------------------------------
(* Derived state and game logic of App *)

TileIds == { tiles[i].id : i \in 1..Len(tiles) }

\* tilesById.get(id): the Map is built from tiles in order, so a later tile
\* with the same id replaces an earlier one; a missing key reads undefined.
tilesById(id) ==
    IF \E i \in 1..Len(tiles) : tiles[i].id = id
    THEN LET last_i == CHOOSE i \in 1..Len(tiles) :
                          /\ tiles[i].id = id
                          /\ \A j \in 1..Len(tiles) : tiles[j].id = id => j <= i
         IN  tiles[last_i]
    ELSE Undefined

\* Mutant: the overlay is left out and the stored tiles are handed on.
tilesWithCapitalName_Raw == tiles

tilesWithCapitalName ==
    [i \in 1..Len(tiles) |->
        IF tiles[i].id = "capital"
        THEN [tiles[i] EXCEPT !.name = capitalName]
        ELSE tiles[i]]

\* Mutant: the check is a stub that accepts every pair of ids.
isAdjacentMove_Always(fromId, toId) == TRUE

\* Mutant: only the existence of the two tiles is checked.
isAdjacentMove_ExistsOnly(fromId, toId) ==
    tilesById(fromId) # Undefined /\ tilesById(toId) # Undefined

isAdjacentMove(fromId, toId) ==
    LET from == tilesById(fromId)
        to   == tilesById(toId)
    IN  IF from = Undefined \/ to = Undefined THEN FALSE
        ELSE LET neighbors == axialNeighbors(from.axial)
             IN  \E i \in 1..Len(neighbors) : axialEquals(neighbors[i], to.axial)

\* Mutant: the region check lets every move through.
isRegionMoveAllowed_Always(fromId, toId) == TRUE

\* Mutant: the hub exception is missing, only same-region moves pass.
isRegionMoveAllowed_SameRegionOnly(fromId, toId) ==
    LET from == tilesById(fromId)
        to   == tilesById(toId)
    IN  IF from = Undefined \/ to = Undefined THEN FALSE
        ELSE Region(from) = Region(to)

\* Mutant: only the origin is tested for the hub; moves into it from another
\* region are refused.
isRegionMoveAllowed_OutwardOnly(fromId, toId) ==
    LET from == tilesById(fromId)
        to   == tilesById(toId)
    IN  IF from = Undefined \/ to = Undefined THEN FALSE
        ELSE IF Region(from) = "Capital" THEN TRUE
        ELSE Region(from) = Region(to)

isRegionMoveAllowed(fromId, toId) ==
    LET from == tilesById(fromId)
        to   == tilesById(toId)
    IN  IF from = Undefined \/ to = Undefined THEN FALSE
        ELSE IF Region(from) = "Capital" \/ Region(to) = "Capital" THEN TRUE
        ELSE Region(from) = Region(to)

\* Mutant: the flag is computed for every tile, so the others are cleared.
markDiscovered_OnlyCurrent(prevTiles, tileId) ==
    [i \in 1..Len(prevTiles) |->
        [prevTiles[i] EXCEPT !.discovered = (prevTiles[i].id = tileId)]]

\* Mutant: the marked tile is also moved to the front of the roster.
markDiscovered_MovesToFront(prevTiles, tileId) ==
    LET hit  == SelectSeq(prevTiles, LAMBDA t : t.id = tileId)
        rest == SelectSeq(prevTiles, LAMBDA t : t.id # tileId)
    IN  [i \in 1..Len(hit) |-> [hit[i] EXCEPT !.discovered = TRUE]] \o rest

\* Mutant: the flag of the matching tile is flipped instead of set.
markDiscovered_Toggle(prevTiles, tileId) ==
    [i \in 1..Len(prevTiles) |->
        IF prevTiles[i].id = tileId
        THEN [prevTiles[i] EXCEPT !.discovered = ~prevTiles[i].discovered]
        ELSE prevTiles[i]]

\* Mutant: a move reveals the whole map.
markDiscovered_All(prevTiles, tileId) ==
    [i \in 1..Len(prevTiles) |-> [prevTiles[i] EXCEPT !.discovered = TRUE]]

\* Mutant: the destination is never marked.
markDiscovered_Noop(prevTiles, tileId) == prevTiles

markDiscovered(prevTiles, tileId) ==
    [i \in 1..Len(prevTiles) |->
        IF prevTiles[i].id = tileId
        THEN [prevTiles[i] EXCEPT !.discovered = TRUE]
        ELSE prevTiles[i]]

\* The screen an accepted move navigates to.
MoveScreen(tileId) ==
    IF tileId = "capital"
    THEN IF variant = "regioned" THEN [kind |-> "global"] ELSE [kind |-> "capital"]
    ELSE [kind |-> "tile", tileId |-> tileId]

\* Whether attemptMoveTo gets past its early returns.
MovePasses(tileId) ==
    /\ tileId # partyTileId
    /\ isAdjacentMove(partyTileId, tileId)
    /\ variant = "regioned" => isRegionMoveAllowed(partyTileId, tileId)

\* What App renders: the component and the tiles it is handed.  The earlier
\* App hands GlobalMapScreen the stored tiles, the later one the overlay.
Render ==
    IF screen.kind = "global"
    THEN [component |-> "GlobalMapScreen",
          tiles |-> IF variant = "regioned" THEN tilesWithCapitalName ELSE tiles]
    ELSE IF screen.kind = "capital"
    THEN [component |-> "CapitalViewScreen", tiles |-> <<>>]
    ELSE LET tile == tilesById(screen.tileId)
         IN  IF tile = Undefined
             THEN [component |-> "TileNotFound", tiles |-> <<>>]
             ELSE [component |-> "TileViewScreen", tiles |-> <<tile>>]

----------------------------------------------------------------------------
(* What the rendered screen lets the user invoke *)

MAX_NAME_LENGTH == 30

\* Mutant: the tile-click handler is handed to every screen.
UIOffersMove_AnyScreen(tileId) == tileId \in TileIds

UIOffersMove(tileId) == screen.kind = "global" /\ tileId \in TileIds

UIOffersEnter == screen.kind = "global" /\ partyTileId = "capital"

UIOffersBack == screen.kind \in {"capital", "tile"}

\* saveEditedName trims and validates before it calls onUpdateCapitalName.
UIOffersRename(newName) ==
    /\ \/ screen.kind = "capital"
       \/ screen.kind = "global" /\ partyTileId = "capital"
    /\ newName = Trim(newName)
    /\ Len(newName) # 0
    /\ ~(Len(newName) > MAX_NAME_LENGTH)

\* The nameError the screen's saveEditedName leaves for the text in the edit
\* box; "null" when the name was saved.  onUpdateCapitalName(trimmed) is
\* updateCapitalName, which trims and validates once more.
saveEditedNameError(editedName) ==
    LET trimmed == Trim(editedName)
        success == LET trimmedName == Trim(trimmed)
                   IN  ~(Len(trimmedName) = 0) /\ ~(Len(trimmedName) > MAX_NAME_LENGTH)
    IN  IF Len(trimmed) = 0 THEN "Name cannot be empty"
        ELSE IF Len(trimmed) > 30 THEN "Name must be 30 characters or less"
        ELSE IF success THEN "null"
        ELSE "Invalid name"

----------------------------------------------------------------------------
(* History *)

Snapshot ==
    [tiles |-> tiles, partyTileId |-> partyTileId, screen |-> screen,
     capitalName |-> capitalName]

\* The window of positions after the party steps onto tileId.
Stepped(tileId) ==
    LET t == Append(trail, tileId)
    IN  IF Len(t) > TrailLen THEN Tail(t) ELSE t

Call(op, tileArg, nameArg, ret) ==
    [op |-> op, tileArg |-> tileArg, nameArg |-> nameArg, pre |-> Snapshot,
     ret |-> ret]

----------------------------------------------------------------------------
(* Inputs *)

\* Strings that are no tile id of either roster.
UnknownIds == {"nowhere", ""}

MoveInputs == TileIds \cup UnknownIds

Spaces(n) == [i \in 1..n |-> " "]

\* A name of n characters with no blank at either end (one inside when n >= 3).
Body(n) == [i \in 1..n |-> IF i = 2 /\ n >= 3 THEN " " ELSE "a"]

BodyLens == {0, 1, 3, MAX_NAME_LENGTH, MAX_NAME_LENGTH + 1}

NameInputs ==
    { Spaces(i) \o Body(n) \o Spaces(j) : i \in 0..MaxPad, j \in 0..MaxPad, n \in BodyLens }

----------------------------------------------------------------------------
(* Handlers *)

AttemptMoveTo(tileId) ==
    /\ last' = Call("attemptMoveTo", tileId, <<>>, "undefined")
    /\ viaUI' = (viaUI /\ UIOffersMove(tileId))
    /\ IF MovePasses(tileId)
       THEN /\ partyTileId' = tileId
            /\ tiles' = markDiscovered(tiles, tileId)
            /\ screen' = MoveScreen(tileId)
            /\ trail' = Stepped(tileId)
       ELSE UNCHANGED <<partyTileId, tiles, screen, trail>>
    /\ UNCHANGED <<variant, capitalName>>

\* Mutant: going back to the map also puts the party back on the capital.
BackToGlobal_ResetsParty ==
    /\ last' = Call("backToGlobal", "", <<>>, "undefined")
    /\ viaUI' = (viaUI /\ UIOffersBack)
    /\ screen' = [kind |-> "global"]
    /\ partyTileId' = "capital"
    /\ UNCHANGED <<variant, tiles, capitalName, trail>>

BackToGlobal ==
    /\ last' = Call("backToGlobal", "", <<>>, "undefined")
    /\ viaUI' = (viaUI /\ UIOffersBack)
    /\ screen' = [kind |-> "global"]
    /\ UNCHANGED <<variant, tiles, partyTileId, capitalName, trail>>

\* Mutant: the guard on the party's position is missing.
EnterCapital_Unconditional ==
    /\ last' = Call("enterCapital", "", <<>>, "undefined")
    /\ viaUI' = (viaUI /\ UIOffersEnter)
    /\ screen' = [kind |-> "capital"]
    /\ UNCHANGED <<variant, tiles, partyTileId, capitalName, trail>>

EnterCapital ==
    /\ last' = Call("enterCapital", "", <<>>, "undefined")
    /\ viaUI' = (viaUI /\ UIOffersEnter)
    /\ screen' = IF partyTileId = "capital" THEN [kind |-> "capital"] ELSE screen
    /\ UNCHANGED <<variant, tiles, partyTileId, capitalName, trail>>

\* Mutant: the length check is off by one and rejects a name of 30 characters.
UpdateCapitalName_OffByOne(newName) ==
    LET trimmedName == Trim(newName)
        ok == ~(Len(trimmedName) = 0) /\ ~(Len(trimmedName) >= MAX_NAME_LENGTH)
    IN  /\ variant = "regioned"
        /\ last' = Call("updateCapitalName", "", newName, IF ok THEN "true" ELSE "false")
        /\ viaUI' = (viaUI /\ UIOffersRename(newName))
        /\ capitalName' = IF ok THEN trimmedName ELSE capitalName
        /\ UNCHANGED <<variant, tiles, partyTileId, screen, trail>>

\* Mutant: a name that is too long is cut to 30 characters and accepted.
UpdateCapitalName_TruncatesLong(newName) ==
    LET trimmedName == Trim(newName)
        ok == ~(Len(trimmedName) = 0)
        kept == IF Len(trimmedName) > MAX_NAME_LENGTH
                THEN SubSeq(trimmedName, 1, MAX_NAME_LENGTH) ELSE trimmedName
    IN  /\ variant = "regioned"
        /\ last' = Call("updateCapitalName", "", newName, IF ok THEN "true" ELSE "false")
        /\ viaUI' = (viaUI /\ UIOffersRename(newName))
        /\ capitalName' = IF ok THEN kept ELSE capitalName
        /\ UNCHANGED <<variant, tiles, partyTileId, screen, trail>>

\* Mutant: the new name is also written into the capital tile of the roster.
UpdateCapitalName_WritesTile(newName) ==
    LET trimmedName == Trim(newName)
        ok == ~(Len(trimmedName) = 0) /\ ~(Len(trimmedName) > MAX_NAME_LENGTH)
    IN  /\ variant = "regioned"
        /\ last' = Call("updateCapitalName", "", newName, IF ok THEN "true" ELSE "false")
        /\ viaUI' = (viaUI /\ UIOffersRename(newName))
        /\ capitalName' = IF ok THEN trimmedName ELSE capitalName
        /\ tiles' = IF ok
                    THEN [i \in 1..Len(tiles) |->
                            IF tiles[i].id = "capital"
                            THEN [tiles[i] EXCEPT !.name = trimmedName]
                            ELSE tiles[i]]
                    ELSE tiles
        /\ UNCHANGED <<variant, partyTileId, screen, trail>>

UpdateCapitalName(newName) ==
    LET trimmedName == Trim(newName)
        ok == ~(Len(trimmedName) = 0) /\ ~(Len(trimmedName) > MAX_NAME_LENGTH)
    IN  /\ variant = "regioned"
        /\ last' = Call("updateCapitalName", "", newName, IF ok THEN "true" ELSE "false")
        /\ viaUI' = (viaUI /\ UIOffersRename(newName))
        /\ capitalName' = IF ok THEN trimmedName ELSE capitalName
        /\ UNCHANGED <<variant, tiles, partyTileId, screen, trail>>

----------------------------------------------------------------------------
(* Specifications *)

\* No function applied directly; no second App running.
NoProbe == [op |-> "none"]

NoTwin == [running |-> FALSE]

NoCall ==
    [op |-> "none", tileArg |-> "", nameArg |-> <<>>, pre |-> Undefined,
     ret |-> "undefined"]

\* Mutant: the party starts on a tile that is not the hub.
Init_StartsOffCapital ==
    /\ variant = "regioned"
    /\ tiles = INITIAL_TILES
    /\ partyTileId = "pitax"
    /\ screen = [kind |-> "global"]
    /\ capitalName = DEFAULT_CAPITAL_NAME
    /\ last = NoCall
    /\ viaUI = TRUE
    /\ trail = <<"pitax">>
    /\ probe = NoProbe
    /\ twin = NoTwin

Init ==
    /\ variant = "regioned"
    /\ tiles = INITIAL_TILES
    /\ partyTileId = "capital"
    /\ screen = [kind |-> "global"]
    /\ capitalName = DEFAULT_CAPITAL_NAME
    /\ last = NoCall
    /\ viaUI = TRUE
    /\ trail = <<"capital">>
    /\ probe = NoProbe
    /\ twin = NoTwin

\* The earlier App keeps no capitalName; the cell stays empty.
InitFog ==
    /\ variant = "fog"
    /\ tiles = FOG_INITIAL_TILES
    /\ partyTileId = "capital"
    /\ screen = [kind |-> "global"]
    /\ capitalName = <<>>
    /\ last = NoCall
    /\ viaUI = TRUE
    /\ trail = <<"capital">>
    /\ probe = NoProbe
    /\ twin = NoTwin

Next ==
    \/ \E tileId \in MoveInputs : AttemptMoveTo(tileId) /\ UNCHANGED <<probe, twin>>
    \/ BackToGlobal /\ UNCHANGED <<probe, twin>>
    \/ EnterCapital /\ UNCHANGED <<probe, twin>>
    \/ \E newName \in NameInputs :
          UpdateCapitalName(newName) /\ UNCHANGED <<probe, twin>>

NextFog ==
    \/ \E tileId \in MoveInputs : AttemptMoveTo(tileId) /\ UNCHANGED <<probe, twin>>
    \/ BackToGlobal /\ UNCHANGED <<probe, twin>>
    \/ EnterCapital /\ UNCHANGED <<probe, twin>>

\* Rosters App could be built with: the shipped one, one whose capital tile
\* has kind wild, one with a second tile of kind capital, and one where two
\* tiles share an id.
RosterInputs ==
    { INITIAL_TILES,
      [INITIAL_TILES EXCEPT ![1].kind = "wild"],
      [INITIAL_TILES EXCEPT ![4].kind = "capital"],
      [INITIAL_TILES EXCEPT ![3].id = "greenbelt-nw"] }

\* App's construction with the roster as a parameter: every useState takes its
\* initial value as it is; nothing inspects the roster.
InitRoster ==
    /\ variant = "regioned"
    /\ tiles \in RosterInputs
    /\ partyTileId = "capital"
    /\ screen = [kind |-> "global"]
    /\ capitalName = DEFAULT_CAPITAL_NAME
    /\ last = NoCall
    /\ viaUI = TRUE
    /\ trail = <<"capital">>
    /\ probe = NoProbe
    /\ twin = NoTwin

\* The later, regioned App.
Spec == Init /\ [][Next]_vars

\* The later App started on any roster of RosterInputs.
SpecRoster == InitRoster /\ [][Next]_vars

\* The earlier, fog-of-war App.
SpecFog == InitFog /\ [][NextFog]_vars

\* Either App.
SpecBoth == (Init \/ InitFog) /\ [][Next]_vars

\* Either App, driven only through the screens it renders.
NextUI ==
    \/ \E tileId \in MoveInputs :
          AttemptMoveTo(tileId) /\ viaUI' /\ UNCHANGED <<probe, twin>>
    \/ BackToGlobal /\ viaUI' /\ UNCHANGED <<probe, twin>>
    \/ EnterCapital /\ viaUI' /\ UNCHANGED <<probe, twin>>
    \/ \E newName \in NameInputs :
          UpdateCapitalName(newName) /\ viaUI' /\ UNCHANGED <<probe, twin>>

SpecUI == (Init \/ InitFog) /\ [][NextUI]_vars

----------------------------------------------------------------------------
(* The pure functions applied directly, on arguments of their own *)

Coords == [q : -MaxCoord..MaxCoord, r : -MaxCoord..MaxCoord]

\* axialNeighbors(a)
ProbeNeighbors(a) ==
    /\ probe' = [op |-> "axialNeighbors", a |-> a, out |-> axialNeighbors(a)]
    /\ UNCHANGED <<variant, tiles, partyTileId, screen, capitalName, last,
                   viaUI, trail, twin>>

\* axialNeighbors(b) for the i-th element b of the array axialNeighbors(a)
\* returned.
ProbeBack(i) ==
    /\ probe.op = "axialNeighbors"
    /\ i \in 1..Len(probe.out)
    /\ probe' = [op |-> "axialNeighbors of a neighbor", a |-> probe.a,
                 b |-> probe.out[i], out |-> axialNeighbors(probe.out[i])]
    /\ UNCHANGED <<variant, tiles, partyTileId, screen, capitalName, last,
                   viaUI, trail, twin>>

\* Rosters markDiscovered is applied to: the later roster, and the earlier one
\* with any set of its wild tiles discovered.
ProbeRosters ==
    {INITIAL_TILES} \cup
    { [i \in 1..Len(FOG_INITIAL_TILES) |->
          [FOG_INITIAL_TILES[i] EXCEPT
              !.discovered = (FOG_INITIAL_TILES[i].discovered \/ i \in seen)]] :
      seen \in SUBSET (1..Len(FOG_INITIAL_TILES)) }

ProbeIds(ts) == { ts[i].id : i \in 1..Len(ts) } \cup UnknownIds

\* markDiscovered(prevTiles, tileId)
ProbeMark(prevTiles, tileId) ==
    /\ probe' = [op |-> "markDiscovered", prevTiles |-> prevTiles,
                 tileId |-> tileId, out |-> markDiscovered(prevTiles, tileId)]
    /\ UNCHANGED <<variant, tiles, partyTileId, screen, capitalName, last,
                   viaUI, trail, twin>>

\* markDiscovered applied once more, with the same id, to what it returned.
ProbeMarkAgain ==
    /\ probe.op = "markDiscovered"
    /\ probe' = [op |-> "markDiscovered twice", prevTiles |-> probe.prevTiles,
                 tileId |-> probe.tileId, once |-> probe.out,
                 out |-> markDiscovered(probe.out, probe.tileId)]
    /\ UNCHANGED <<variant, tiles, partyTileId, screen, capitalName, last,
                   viaUI, trail, twin>>

NextProbe ==
    \/ \E a \in Coords : ProbeNeighbors(a)
    \/ \E i \in 1..Len(NEIGHBOR_DIRS) : ProbeBack(i)
    \/ \E prevTiles \in ProbeRosters :
          \E tileId \in ProbeIds(prevTiles) : ProbeMark(prevTiles, tileId)
    \/ ProbeMarkAgain

\* The functions of game/logic/hex and markDiscovered, called directly.
SpecProbe == Init /\ [][NextProbe]_vars

----------------------------------------------------------------------------
(* The earlier App run beside the later one.  The state cells are the later *)
(* App; twin holds the earlier App's partyTileId and screen.  Both are      *)
(* built on the same roster, whose ids and coordinates no handler changes,  *)
(* so the earlier App's tilesById agrees with the later one's on them.      *)

\* attemptMoveTo of the earlier App: no region check, and landing on the
\* capital opens the Capital screen.
TwinAttemptMoveTo(tileId) ==
    twin' =
        IF tileId = twin.partyTileId THEN twin
        ELSE IF ~isAdjacentMove(twin.partyTileId, tileId) THEN twin
        ELSE [twin EXCEPT
                !.partyTileId = tileId,
                !.screen = IF tileId = "capital" THEN [kind |-> "capital"]
                           ELSE [kind |-> "tile", tileId |-> tileId]]

TwinBackToGlobal == twin' = [twin EXCEPT !.screen = [kind |-> "global"]]

TwinEnterCapital ==
    twin' = IF twin.partyTileId = "capital"
            THEN [twin EXCEPT !.screen = [kind |-> "capital"]]
            ELSE twin

InitTwin ==
    /\ variant = "regioned"
    /\ tiles \in {INITIAL_TILES, FOG_INITIAL_TILES}
    /\ partyTileId = "capital"
    /\ screen = [kind |-> "global"]
    /\ capitalName = DEFAULT_CAPITAL_NAME
    /\ last = NoCall
    /\ viaUI = TRUE
    /\ trail = <<"capital">>
    /\ probe = NoProbe
    /\ twin = [running |-> TRUE, partyTileId |-> "capital",
               screen |-> [kind |-> "global"]]

\* Every call goes to both Apps.
NextTwin ==
    \/ \E tileId \in MoveInputs :
          AttemptMoveTo(tileId) /\ TwinAttemptMoveTo(tileId) /\ UNCHANGED probe
    \/ BackToGlobal /\ TwinBackToGlobal /\ UNCHANGED probe
    \/ EnterCapital /\ TwinEnterCapital /\ UNCHANGED probe

SpecTwin == InitTwin /\ [][NextTwin]_vars

TypeOK ==
    /\ variant \in {"regioned", "fog"}
    /\ partyTileId \in TileIds
    /\ screen.kind \in {"global", "tile", "capital"}
    /\ viaUI \in BOOLEAN

----------------------------------------------------------------------------
(* Vocabulary of the properties, read off a snapshot and independent of    *)
(* the handlers' own helpers.                                              *)

SixOffsets == { <<1, 0>>, <<1, -1>>, <<0, -1>>, <<-1, 0>>, <<-1, 1>>, <<0, 1>> }

Has(ts, id) == \E i \in 1..Len(ts) : ts[i].id = id

TileOf(ts, id) == ts[CHOOSE i \in 1..Len(ts) : ts[i].id = id]

AxialAdjacent(a, b) == <<b.q - a.q, b.r - a.r>> \in SixOffsets

HubRegion == "Capital"

\* The hub-or-same-region rule on two tiles.
RegionRuleAllows(from, to) ==
    \/ Region(from) = HubRegion
    \/ Region(to) = HubRegion
    \/ Region(from) = Region(to)

IsMoveCall == last.op = "attemptMoveTo"

\* The last call was attemptMoveTo with a destination that is on the roster,
\* differs from the party's tile and is axial-adjacent to it.
AdjacentMoveCall ==
    /\ IsMoveCall
    /\ last.tileArg # last.pre.partyTileId
    /\ Has(last.pre.tiles, last.pre.partyTileId)
    /\ Has(last.pre.tiles, last.tileArg)
    /\ AxialAdjacent(TileOf(last.pre.tiles, last.pre.partyTileId).axial,
                     TileOf(last.pre.tiles, last.tileArg).axial)

\* The last call was attemptMoveTo and passed every check.
LegalMoveCall ==
    /\ AdjacentMoveCall
    /\ RegionRuleAllows(TileOf(last.pre.tiles, last.pre.partyTileId),
                        TileOf(last.pre.tiles, last.tileArg))

\* The last call was attemptMoveTo and was a self-move or failed a check.
RejectedMoveCall == IsMoveCall /\ ~LegalMoveCall

----------------------------------------------------------------------------
(* C1 *)

\* C1: whenever attemptMoveTo(toId) passes all its checks, the state right
\* after the call has partyTileId = toId, tile toId discovered and, for a
\* destination other than the capital, screen = TileDetail(toId); the three
\* writes are never seen apart: any step that changes partyTileId also leaves
\* the new tile discovered and the screen on the move's landing screen.
C1_MoveCommitsTogether ==
    /\ [](LegalMoveCall =>
            /\ partyTileId = last.tileArg
            /\ TileOf(tiles, last.tileArg).discovered
            /\ (last.tileArg # "capital" =>
                    screen = [kind |-> "tile", tileId |-> last.tileArg]))
    /\ [][partyTileId' # partyTileId =>
            /\ TileOf(tiles', partyTileId').discovered
            /\ (partyTileId' # "capital" =>
                    screen' = [kind |-> "tile", tileId |-> partyTileId'])]_vars

\* An accepted move onto a wild tile that was undiscovered before the call.
C1_Witness ==
    /\ LegalMoveCall
    /\ last.tileArg # "capital"
    /\ ~TileOf(last.pre.tiles, last.tileArg).discovered
    /\ partyTileId = last.tileArg

----------------------------------------------------------------------------
(* C2 *)

\* C2: whenever attemptMoveTo(toId) is a self-move or is rejected (toId not on
\* the roster, not adjacent, or a crossing between two non-hub regions),
\* partyTileId, every tile, the screen and capitalName are exactly as before
\* the call, and the call returns normally.
C2_RejectedMoveChangesNothing ==
    RejectedMoveCall =>
        /\ Snapshot = last.pre
        /\ last.ret = "undefined"

\* A rejected crossing between two adjacent tiles of different non-hub regions.
C2_Witness ==
    /\ AdjacentMoveCall
    /\ ~RegionRuleAllows(TileOf(last.pre.tiles, last.pre.partyTileId),
                         TileOf(last.pre.tiles, last.tileArg))
    /\ Snapshot = last.pre

----------------------------------------------------------------------------
(* C3 *)

\* C3: for adjacent roster tiles from and to, attemptMoveTo is accepted exactly
\* when the two regions are equal or one of them is the hub region: a crossing
\* between two different non-hub regions is rejected, a move with a hub
\* endpoint or within one region is accepted.
C3_RegionRule ==
    AdjacentMoveCall =>
        LET from == TileOf(last.pre.tiles, last.pre.partyTileId)
            to   == TileOf(last.pre.tiles, last.tileArg)
        IN  /\ (Region(from) # Region(to) /\ Region(from) # HubRegion
                    /\ Region(to) # HubRegion)
                => partyTileId = last.pre.partyTileId
            /\ (Region(from) # Region(to)
                    /\ (Region(from) = HubRegion \/ Region(to) = HubRegion))
                => partyTileId = last.tileArg
            /\ Region(from) = Region(to) => partyTileId = last.tileArg

\* An accepted move between two adjacent tiles of the same peripheral region.
C3_Witness ==
    /\ AdjacentMoveCall
    /\ Region(TileOf(last.pre.tiles, last.pre.partyTileId))
         = Region(TileOf(last.pre.tiles, last.tileArg))
    /\ Region(TileOf(last.pre.tiles, last.tileArg)) \notin {HubRegion, "undefined"}
    /\ partyTileId = last.tileArg

----------------------------------------------------------------------------
(* C4 *)

\* C4: every change of partyTileId goes to a tile whose axial coordinate is the
\* origin's coordinate plus one of the six neighbor offsets: the party never
\* moves to a non-adjacent tile.
C4_MovesOnlyToNeighbors ==
    [][partyTileId' # partyTileId =>
            AxialAdjacent(TileOf(tiles, partyTileId).axial,
                          TileOf(tiles', partyTileId').axial)]_vars

\* attemptMoveTo was called from a peripheral tile with a roster tile that is
\* not adjacent to it, and the party stayed where it was.
C4_Witness ==
    /\ IsMoveCall
    /\ last.pre.partyTileId # "capital"
    /\ last.tileArg # last.pre.partyTileId
    /\ Has(last.pre.tiles, last.tileArg)
    /\ ~AxialAdjacent(TileOf(last.pre.tiles, last.pre.partyTileId).axial,
                      TileOf(last.pre.tiles, last.tileArg).axial)
    /\ partyTileId = last.pre.partyTileId

----------------------------------------------------------------------------
(* C5 *)

IsHubTile(id) == TileOf(tiles, id).kind = "capital"

IsPeripheral(id) == Region(TileOf(tiles, id)) \notin {HubRegion, "undefined"}

\* C5: if the party stood on a tile of peripheral region A and later on a tile
\* of a different peripheral region B, it stood on the hub tile in between
\* (stated over every window of the party's latest positions).
C5_RegionsRouteThroughHub ==
    \A i \in DOMAIN trail : \A j \in DOMAIN trail :
        (/\ i < j
         /\ IsPeripheral(trail[i])
         /\ IsPeripheral(trail[j])
         /\ Region(TileOf(tiles, trail[i])) # Region(TileOf(tiles, trail[j])))
        => \E k \in DOMAIN trail : i < k /\ k < j /\ IsHubTile(trail[k])

\* The party went from one peripheral region to another, by way of the hub.
C5_Witness ==
    \E i \in DOMAIN trail : \E j \in DOMAIN trail :
        /\ i < j
        /\ IsPeripheral(trail[i])
        /\ IsPeripheral(trail[j])
        /\ Region(TileOf(tiles, trail[i])) # Region(TileOf(tiles, trail[j]))
        /\ partyTileId = trail[j]

----------------------------------------------------------------------------
(* C6 *)

\* C6: every successful attemptMoveTo whose destination is the capital tile
\* leaves the screen at Global, whichever tile the party came from; it never
\* opens the Capital view.
C6_CapitalLandingStaysGlobal ==
    (LegalMoveCall /\ TileOf(last.pre.tiles, last.tileArg).kind = "capital")
        => screen = [kind |-> "global"]

----------------------------------------------------------------------------
(* C7 *)

\* The outcome value the movement engine is specified to return for a call.
ExpectedOutcome(pre, toId) ==
    IF toId = pre.partyTileId THEN "NoOp"
    ELSE IF ~Has(pre.tiles, pre.partyTileId) \/ ~Has(pre.tiles, toId)
        THEN "Invalid(unknown-tile)"
    ELSE IF ~AxialAdjacent(TileOf(pre.tiles, pre.partyTileId).axial,
                           TileOf(pre.tiles, toId).axial)
        THEN "Invalid(not-adjacent)"
    ELSE IF ~RegionRuleAllows(TileOf(pre.tiles, pre.partyTileId),
                              TileOf(pre.tiles, toId))
        THEN "Invalid(cross-region)"
    ELSE IF TileOf(pre.tiles, toId).kind = "capital"
        THEN "Moved(StayOnGlobalView)"
    ELSE "Moved(OpenTileDetail)"

----------------------------------------------------------------------------
(* C8 *)

\* C8: enterCapital sets the screen to Capital exactly when the party is on the
\* capital tile, changing nothing else; with the party on any other tile it
\* changes nothing at all, and it returns normally.
C8_EnterCapitalOnlyOnCapital ==
    last.op = "enterCapital" =>
        /\ last.ret = "undefined"
        /\ IF TileOf(last.pre.tiles, last.pre.partyTileId).kind = "capital"
           THEN Snapshot = [last.pre EXCEPT !.screen = [kind |-> "capital"]]
           ELSE Snapshot = last.pre

\* enterCapital was called with the party on a wild tile.
C8_Witness ==
    /\ last.op = "enterCapital"
    /\ TileOf(last.pre.tiles, last.pre.partyTileId).kind = "wild"
    /\ screen.kind # "capital"

----------------------------------------------------------------------------
(* C9 *)

\* C9: backToGlobal, called in any screen state, leaves the screen at Global
\* and partyTileId, every tile and capitalName as they were.
C9_BackToGlobalOnlyChangesScreen ==
    last.op = "backToGlobal" =>
        Snapshot = [last.pre EXCEPT !.screen = [kind |-> "global"]]

\* backToGlobal was called from the TileDetail screen of a wild tile.
C9_Witness ==
    /\ last.op = "backToGlobal"
    /\ last.pre.screen.kind = "tile"
    /\ partyTileId = last.pre.screen.tileId
    /\ screen = [kind |-> "global"]

----------------------------------------------------------------------------
(* C10 *)

DirectTileCapital ==
    \/ screen.kind = "tile" /\ screen'.kind = "capital"
    \/ screen.kind = "capital" /\ screen'.kind = "tile"

\* C10: no single operation takes the screen directly from TileDetail to
\* Capital or from Capital to TileDetail, in any execution of the App driven
\* through the screens it renders (tile clicks and Enter Capital on the Global
\* screen, Back on the TileDetail and Capital screens): between the two there
\* is always a state with screen Global.
C10_NoDirectTileCapital == [][~DirectTileCapital]_vars

\* The party visited a wild tile, came back to the capital and entered it.
C10_Witness ==
    /\ screen.kind = "capital"
    /\ \E i \in DOMAIN trail : TileOf(tiles, trail[i]).kind = "wild"

----------------------------------------------------------------------------
(* C11 *)

\* C11: a tile's discovered flag is monotonic: once true, it is true in every
\* later state, whatever handler runs.
C11_DiscoveredMonotonic ==
    [][\A i \in 1..Len(tiles) : tiles[i].discovered => tiles'[i].discovered]_vars

\* Two wild tiles are discovered: the first one kept its flag while the party
\* went on to the second.
C11_Witness ==
    \E i \in 1..Len(tiles) : \E j \in 1..Len(tiles) :
        /\ i # j
        /\ tiles[i].kind = "wild" /\ tiles[j].kind = "wild"
        /\ ~FOG_INITIAL_TILES[i].discovered /\ ~FOG_INITIAL_TILES[j].discovered
        /\ variant = "fog"
        /\ tiles[i].discovered /\ tiles[j].discovered

----------------------------------------------------------------------------
(* C12 *)

\* The positions of the roster whose discovered flag the last call changed.
FlagsChanged ==
    { i \in 1..Len(tiles) : tiles[i].discovered # last.pre.tiles[i].discovered }

\* C12: a discovered flag changes only in an accepted attemptMoveTo, and then
\* only the destination's flag; enterCapital, backToGlobal, updateCapitalName
\* and rejected moves change no flag.
C12_OnlyMovesDiscover ==
    last.op # "none" =>
        /\ Len(tiles) = Len(last.pre.tiles)
        /\ FlagsChanged # {} => LegalMoveCall
        /\ \A i \in FlagsChanged : tiles[i].id = last.tileArg

\* An accepted move changed the destination's flag and left another wild tile
\* undiscovered.
C12_Witness ==
    /\ LegalMoveCall
    /\ FlagsChanged # {}
    /\ \E i \in 1..Len(tiles) : ~tiles[i].discovered

----------------------------------------------------------------------------
(* C13 *)

\* C13: in every reachable state partyTileId is the id of a roster tile, also
\* after attemptMoveTo was called with a string that is no tile id.
C13_PartyOnRoster == Has(tiles, partyTileId)

\* attemptMoveTo('nowhere') was called and the party is where it was.
C13_Witness ==
    /\ IsMoveCall
    /\ last.tileArg = "nowhere"
    /\ ~Has(tiles, last.tileArg)
    /\ Has(tiles, partyTileId)

----------------------------------------------------------------------------
(* C14 *)

\* C14: whenever the screen is TileDetail(tileId), tileId is the id of a roster
\* tile, so the render never takes its 'Tile not found' branch.
C14_TileDetailOnRoster ==
    /\ screen.kind = "tile" => Has(tiles, screen.tileId)
    /\ Render.component # "TileNotFound"

\* The TileDetail screen of a roster tile is shown, and stayed after a call of
\* attemptMoveTo with a string that is no tile id.
C14_Witness ==
    /\ screen.kind = "tile"
    /\ Render.component = "TileViewScreen"
    /\ IsMoveCall
    /\ ~Has(tiles, last.tileArg)

----------------------------------------------------------------------------
(* C15 *)

\* The positions of s that hold no whitespace, and s without its leading and
\* trailing whitespace, by positions rather than by stripping.
NonWhite(s) == { i \in 1..Len(s) : ~IsWhitespace(s[i]) }

Stripped(s) ==
    IF NonWhite(s) = {} THEN <<>>
    ELSE LET first == CHOOSE i \in NonWhite(s) : \A j \in NonWhite(s) : i <= j
             final == CHOOSE i \in NonWhite(s) : \A j \in NonWhite(s) : j <= i
         IN  SubSeq(s, first, final)

IsRenameCall == last.op = "updateCapitalName"

\* C15: updateCapitalName(newName) succeeds exactly when newName without its
\* leading and trailing whitespace has between 1 and 30 characters, and on
\* success capitalName is that stripped string.
C15_RenameSucceedsIffValid ==
    IsRenameCall =>
        LET t == Stripped(last.nameArg)
        IN  /\ last.ret = "true" <=> (1 <= Len(t) /\ Len(t) <= 30)
            /\ last.ret = "true" => capitalName = t
            /\ Len(t) = 30 => last.ret = "true"
            /\ Len(t) = 31 => last.ret = "false"

\* A padded name whose stripped length is exactly 30 was accepted and stored
\* without its padding.
C15_Witness ==
    /\ IsRenameCall
    /\ Len(Stripped(last.nameArg)) = 30
    /\ Len(last.nameArg) > 30
    /\ last.ret = "true"
    /\ capitalName = Stripped(last.nameArg)

----------------------------------------------------------------------------
(* C16 *)

\* Why a name is invalid: "empty", "too-long", or "none" for a valid name.
InvalidBecause(name) ==
    IF Len(Stripped(name)) = 0 THEN "empty"
    ELSE IF Len(Stripped(name)) > 30 THEN "too-long"
    ELSE "none"

FailedRenameCall == IsRenameCall /\ InvalidBecause(last.nameArg) # "none"

----------------------------------------------------------------------------
(* C17 *)

\* C17: capitalName changes only in a successful updateCapitalName; every call
\* of attemptMoveTo, enterCapital and backToGlobal leaves it unchanged; and a
\* successful updateCapitalName leaves the party, the screen and every tile
\* (flag and stored name) unchanged.
C17_CapitalNameFrame ==
    last.op # "none" =>
        /\ capitalName # last.pre.capitalName =>
              IsRenameCall /\ last.ret = "true"
        /\ last.op \in {"attemptMoveTo", "enterCapital", "backToGlobal"} =>
              capitalName = last.pre.capitalName
        /\ IsRenameCall /\ last.ret = "true" =>
              /\ partyTileId = last.pre.partyTileId
              /\ screen = last.pre.screen
              /\ tiles = last.pre.tiles

\* A rename succeeded and changed the name while the party stood on a wild tile
\* with its TileDetail screen shown.
C17_Witness ==
    /\ IsRenameCall
    /\ last.ret = "true"
    /\ capitalName # last.pre.capitalName
    /\ screen.kind = "tile"
    /\ partyTileId # "capital"

----------------------------------------------------------------------------
(* C18 *)

\* C18: every tile handed to a screen carries capitalName as its name if it is
\* the capital tile and its stored name otherwise, and the names stored in the
\* roster are the initial ones whatever renames happened.
C18_OverlayAtBoundary ==
    /\ \A i \in 1..Len(Render.tiles) :
          LET t == Render.tiles[i]
          IN  t.name = IF t.kind = "capital" THEN capitalName
                       ELSE TileOf(tiles, t.id).name
    /\ \A i \in 1..Len(tiles) : tiles[i].name = INITIAL_TILES[i].name

\* After a rename the Global Map is handed the capital under its new name while
\* the roster still stores the old one.
C18_Witness ==
    /\ Render.component = "GlobalMapScreen"
    /\ capitalName # TileOf(tiles, "capital").name
    /\ \E i \in 1..Len(Render.tiles) :
          Render.tiles[i].kind = "capital" /\ Render.tiles[i].name = capitalName

----------------------------------------------------------------------------
(* C19 *)

DistinctIds(ts) ==
    \A i \in 1..Len(ts) : \A j \in 1..Len(ts) : ts[i].id = ts[j].id => i = j

DistinctAxials(ts) ==
    \A i \in 1..Len(ts) : \A j \in 1..Len(ts) :
        (ts[i].axial.q = ts[j].axial.q /\ ts[i].axial.r = ts[j].axial.r) => i = j

CapitalCount(ts) == Cardinality({ i \in 1..Len(ts) : ts[i].kind = "capital" })

RosterWellFormed(ts) ==
    DistinctIds(ts) /\ DistinctAxials(ts) /\ CapitalCount(ts) = 1

\* C19: the roster of either variant has pairwise distinct ids, pairwise
\* distinct axial coordinates and exactly one tile of kind capital, initially
\* and in every reachable state.
C19_RosterWellFormed ==
    /\ last = NoCall => tiles \in {INITIAL_TILES, FOG_INITIAL_TILES}
    /\ RosterWellFormed(tiles)

\* The earlier App's roster after moves changed it: the party is on a wild
\* tile and the roster is still well formed.
C19_Witness ==
    /\ variant = "fog"
    /\ tiles # FOG_INITIAL_TILES
    /\ partyTileId # "capital"
    /\ RosterWellFormed(tiles)

----------------------------------------------------------------------------
(* C20 *)

\* The rosters the claim says initialization refuses.
RosterFatal(ts) ==
    CapitalCount(ts) = 0 \/ CapitalCount(ts) > 1 \/ ~DistinctIds(ts)

\* C20: initialization validates the roster and aborts on a roster with no
\* capital tile, more than one capital tile or duplicate ids, so no session
\* state (party position, screen) ever exists over such a roster.
C20_InitValidatesRoster == ~RosterFatal(tiles)

----------------------------------------------------------------------------
(* C21 *)

\* Two rosters hold the same tiles in the same order and differ at most in the
\* discovered flags.
SameButDiscovered(ts, us) ==
    /\ Len(ts) = Len(us)
    /\ \A i \in 1..Len(ts) :
          [ts[i] EXCEPT !.discovered = us[i].discovered] = us[i]

ShippedRoster == IF variant = "regioned" THEN INITIAL_TILES ELSE FOG_INITIAL_TILES

\* C21: the roster is fixed after initialization: no call adds, removes or
\* reorders tiles or changes a tile's id, axial, region, kind or stored name;
\* only discovered flags differ from the state before and from the initial
\* roster.
C21_RosterFixed ==
    /\ SameButDiscovered(tiles, ShippedRoster)
    /\ last.op # "none" => SameButDiscovered(tiles, last.pre.tiles)

\* An accepted move changed the roster, and the change is a discovered flag
\* only.
C21_Witness ==
    /\ LegalMoveCall
    /\ tiles # last.pre.tiles
    /\ tiles # ShippedRoster
    /\ SameButDiscovered(tiles, last.pre.tiles)

----------------------------------------------------------------------------
(* C22 *)

\* C22: neighbor symmetry: for every axial a and every b in axialNeighbors(a),
\* some element of axialNeighbors(b) is axialEquals to a.
C22_NeighborSymmetry ==
    probe.op = "axialNeighbors of a neighbor" =>
        \E j \in 1..Len(probe.out) : axialEquals(probe.a, probe.out[j])

\* The neighbors of the fifth neighbor (-1,+1) of a corner coordinate were
\* computed, and the corner is among them.
C22_Witness ==
    /\ probe.op = "axialNeighbors of a neighbor"
    /\ probe.a = [q |-> MaxCoord, r |-> -MaxCoord]
    /\ probe.b = [q |-> MaxCoord - 1, r |-> 1 - MaxCoord]
    /\ \E j \in 1..Len(probe.out) : probe.out[j] = probe.a

----------------------------------------------------------------------------
(* C23 *)

\* The six offsets in the order the claim lists them.
OffsetsInOrder ==
    << <<1, 0>>, <<1, -1>>, <<0, -1>>, <<-1, 0>>, <<-1, 1>>, <<0, 1>> >>

\* C23: axialNeighbors(a) returns exactly six coordinates, pairwise distinct,
\* none equal to a, the k-th being a plus the k-th of the offsets (+1,0),
\* (+1,-1), (0,-1), (-1,0), (-1,+1), (0,+1).
C23_SixNeighborsInOrder ==
    probe.op = "axialNeighbors" =>
        /\ Len(probe.out) = 6
        /\ \A i \in 1..Len(probe.out) : \A j \in 1..Len(probe.out) :
              probe.out[i] = probe.out[j] => i = j
        /\ \A i \in 1..Len(probe.out) : probe.out[i] # probe.a
        /\ \A k \in 1..6 :
              /\ probe.out[k].q = probe.a.q + OffsetsInOrder[k][1]
              /\ probe.out[k].r = probe.a.r + OffsetsInOrder[k][2]

\* axialNeighbors was applied to a coordinate away from the origin and
\* returned six coordinates.
C23_Witness ==
    /\ probe.op = "axialNeighbors"
    /\ probe.a = [q |-> -2, r |-> MaxCoord]
    /\ Len(probe.out) = 6
    /\ probe.out[1] = [q |-> -1, r |-> MaxCoord]

----------------------------------------------------------------------------
(* C24 *)

\* C24: markDiscovered is idempotent and total: a second application with the
\* same id returns what the first returned; on a tile already discovered and
\* on an id that is not in the roster it returns the roster it was given.
C24_MarkDiscoveredIdempotent ==
    /\ probe.op = "markDiscovered" =>
          /\ Len(probe.out) = Len(probe.prevTiles)
          /\ (Has(probe.prevTiles, probe.tileId)
                /\ TileOf(probe.prevTiles, probe.tileId).discovered)
              => probe.out = probe.prevTiles
          /\ ~Has(probe.prevTiles, probe.tileId) => probe.out = probe.prevTiles
    /\ probe.op = "markDiscovered twice" => probe.out = probe.once

\* markDiscovered was applied twice to a tile that was undiscovered: the first
\* application changed the roster, the second did not.
C24_Witness ==
    /\ probe.op = "markDiscovered twice"
    /\ Has(probe.prevTiles, probe.tileId)
    /\ ~TileOf(probe.prevTiles, probe.tileId).discovered
    /\ probe.once # probe.prevTiles
    /\ probe.out = probe.once

----------------------------------------------------------------------------
(* C25 *)

\* C25: the earlier and the later App, run side by side on the same roster
\* and the same calls of attemptMoveTo, enterCapital and backToGlobal, accept
\* the same moves and have the same partyTileId and screen after every step.
C25_VariantsAgree ==
    twin.running =>
        /\ twin.partyTileId = partyTileId
        /\ twin.screen = screen

----------------------------------------------------------------------------
(* C26 *)

\* C26: in every reachable state the tile the party occupies is discovered,
\* in the fog-of-war roster from the initial state through every sequence of
\* moves.
C26_PartyTileDiscovered ==
    /\ Has(tiles, partyTileId)
    /\ TileOf(tiles, partyTileId).discovered

\* The party stands on a tile of the fog-of-war roster that started
\* undiscovered.
C26_Witness ==
    /\ variant = "fog"
    /\ Has(tiles, partyTileId)
    /\ ~TileOf(FOG_INITIAL_TILES, partyTileId).discovered
    /\ TileOf(tiles, partyTileId).discovered

----------------------------------------------------------------------------
(* C27 *)

\* C27: the screen and the party position stay coupled: while the screen is
\* TileDetail(tileId) the party is on tileId and that tile is wild, not the
\* capital; while the screen is Capital the party is on the capital tile.
C27_ScreenFollowsParty ==
    /\ screen.kind = "tile" =>
          /\ partyTileId = screen.tileId
          /\ screen.tileId # "capital"
          /\ Has(tiles, screen.tileId)
          /\ TileOf(tiles, screen.tileId).kind = "wild"
    /\ screen.kind = "capital" =>
          /\ Has(tiles, partyTileId)
          /\ TileOf(tiles, partyTileId).kind = "capital"

\* A move from one wild tile to the next was accepted while a TileDetail
\* screen was shown, and the screen now shows the new tile.
C27_Witness ==
    /\ LegalMoveCall
    /\ last.pre.screen.kind = "tile"
    /\ screen.kind = "tile"
    /\ screen.tileId # last.pre.screen.tileId
    /\ partyTileId = screen.tileId

----------------------------------------------------------------------------
(* C28 *)

\* Whether a move from fromId to toId gets past both checks of the later App.
MoveLegal(fromId, toId) ==
    /\ fromId # toId
    /\ isAdjacentMove(fromId, toId)
    /\ isRegionMoveAllowed(fromId, toId)

\* C28: the party is never stranded: whenever it is off the capital,
\* attemptMoveTo('capital') is accepted, and a call of it did put the party on
\* the capital; and every roster tile is within reach: the move there is
\* accepted at once or after the move to the capital, whose legality no
\* handler can change because the roster is fixed.
C28_NeverStranded ==
    /\ partyTileId # "capital" => MovePasses("capital")
    /\ (IsMoveCall /\ last.tileArg = "capital"
          /\ last.pre.partyTileId # "capital") => partyTileId = "capital"
    /\ \A t \in TileIds :
          \/ t = partyTileId
          \/ MovePasses(t)
          \/ MovePasses("capital") /\ MoveLegal("capital", t)

\* From the Global screen, with the party on a wild tile, attemptMoveTo
\* ('capital') was called and brought the party home.
C28_Witness ==
    /\ IsMoveCall
    /\ last.tileArg = "capital"
    /\ last.pre.partyTileId # "capital"
    /\ last.pre.screen.kind = "global"
    /\ partyTileId = "capital"

----------------------------------------------------------------------------
(* C29 *)

\* C29: move legality is symmetric: for all roster tiles a and b the move from
\* a to b passes isAdjacentMove and isRegionMoveAllowed exactly if the move
\* from b to a does, and after an accepted move the move back would be
\* accepted.
C29_LegalitySymmetric ==
    /\ \A i \in 1..Len(tiles) : \A j \in (i + 1)..Len(tiles) :
          LET a == tiles[i].id
              b == tiles[j].id
          IN  (isAdjacentMove(a, b) /\ isRegionMoveAllowed(a, b))
                <=> (isAdjacentMove(b, a) /\ isRegionMoveAllowed(b, a))
    /\ LegalMoveCall => MovePasses(last.pre.partyTileId)

\* The party went from one wild tile to a neighbor in the same region; the
\* move back is legal.
C29_Witness ==
    /\ LegalMoveCall
    /\ last.pre.partyTileId # "capital"
    /\ partyTileId # "capital"
    /\ MoveLegal(partyTileId, last.pre.partyTileId)
    /\ MoveLegal(last.pre.partyTileId, partyTileId)

----------------------------------------------------------------------------
(* C30 *)

HubById == { i \in 1..Len(tiles) : tiles[i].id = "capital" }

HubByKind == { i \in 1..Len(tiles) : tiles[i].kind = "capital" }

HubByRegion == { i \in 1..Len(tiles) : Region(tiles[i]) = "Capital" }

\* C30: the three identifications of the hub agree on the roster: exactly one
\* tile has id 'capital', it is the only tile of kind 'capital' and the only
\* tile of region 'Capital'; getCapitalTile returns it; and the party starts
\* on it.
C30_HubIdentitiesAgree ==
    /\ Cardinality(HubById) = 1
    /\ HubByKind = HubById
    /\ HubByRegion = HubById
    /\ getCapitalTile(tiles) = tilesById("capital")
    /\ getTilesByRegion(tiles, "Capital") = <<tilesById("capital")>>
    /\ last = NoCall => partyTileId = getCapitalTile(tiles).id

\* The party has left the hub and the three identifications still name the
\* one tile 'capital'.
C30_Witness ==
    /\ last.op = "attemptMoveTo"
    /\ partyTileId # "capital"
    /\ variant = "regioned"
    /\ getCapitalTile(tiles).id = "capital"
    /\ Region(getCapitalTile(tiles)) = "Capital"

====
